---- MODULE Spec2Model ----
(***************************************************************************)
(* Theme-preference synchronisation of the site: the inline bootstrap of   *)
(* BaseLayout.astro, the three-button theme manager of theme-manager.ts    *)
(* and the two-button theme manager kept at the end of BaseLayout.astro.   *)
(*                                                                         *)
(* One behaviour is one browser tab: page loads (bootstrap, DOM-ready      *)
(* favicon update, initialize), clicks and key presses on the controls,    *)
(* OS color-scheme changes and reloads.  Every handler runs to completion, *)
(* so each handler is one action.  An OS color-scheme change is one step:  *)
(* the media query flips and the "change" listeners, if any, run.          *)
(***************************************************************************)
EXTENDS Naturals, Sequences, FiniteSets

VARIABLES
    variant,      \* which manager the page ships: "three" or "two" buttons
    present,      \* elements the host markup contains
    markup,       \* visual state of the controls as the markup delivers it
    os,           \* OS color-scheme signal
    storage,      \* localStorage["theme"], NULL when the key is absent
    readFails,    \* localStorage.getItem throws
    writeFails,   \* localStorage.setItem throws
    pc,           \* page lifecycle position
    dom,          \* document attributes and control visuals
    actualTheme,  \* the bootstrap closure's actualTheme, read by setFavicon
    listeners,    \* click / keydown / media-query listeners attached
    diagnostics,  \* console.error reports of this page load
    uncaught,     \* an exception left an event handler
    lastSelected, \* history: preference last chosen while storage writes worked
    touched,      \* history: a user action ran since the page was loaded
    bootOs,       \* history: OS signal the bootstrap resolved against, kept
                  \* until the first event after DOM-ready
    lastEvent     \* history: the step taken last on this page load

vars == <<variant, present, markup, os, storage, readFails, writeFails, pc,
          dom, actualTheme, listeners, diagnostics, uncaught, lastSelected,
          touched, bootOs, lastEvent>>

NULL == "null"

Preferences == {"light", "dark", "system"}
ActualThemes == {"light", "dark"}

\* what the storage key may hold at page load
StoredValues == {NULL, "light", "dark", "system", "", "junk"}

Falsy(x) == x \in {NULL, ""}

MonogramLight == "monogram-light-mode.svg"
MonogramDark == "monogram-dark-mode.svg"
FaviconLight == "/favicon-light-mode.svg"
FaviconDark == "/favicon-dark-mode.svg"

\* slip: the favicon link looked up with the required elements
Required3_WithFavicon ==
    <<"lightThemeButton", "systemThemeButton", "darkThemeButton",
      "monogram", "favicon">>

\* required elements, in the order of the elements object literal
Required3 == <<"lightThemeButton", "systemThemeButton", "darkThemeButton",
               "monogram">>
Required2 == <<"themeToggle", "systemThemeToggle", "sunIcon", "moonIcon",
               "monogram">>
Required(v) == IF v = "three" THEN Required3 ELSE Required2

Buttons3 == {"lightThemeButton", "systemThemeButton", "darkThemeButton"}
Buttons2 == {"themeToggle", "systemThemeToggle"}
Buttons(v) == IF v = "three" THEN Buttons3 ELSE Buttons2

Range(s) == {s[i] : i \in 1..Len(s)}

(***************************************************************************)
(* Storage access.                                                         *)
(***************************************************************************)
\* bootstrap: try { return localStorage.getItem('theme') } catch { null }
getStoredTheme == IF readFails THEN NULL ELSE storage

safeLocalStorageGet == IF readFails THEN NULL ELSE storage

\* slip: the write is dropped even when storage works
safeLocalStorageSet_Dropped(value, stg) == stg

\* the content of the key after safeLocalStorageSet("theme", value), stg before
safeLocalStorageSet(value, stg) == IF writeFails THEN stg ELSE value

(***************************************************************************)
(* Resolution of a preference against the OS signal.                       *)
(***************************************************************************)
\* matchMedia("(prefers-color-scheme: light)").matches under OS signal sig;
\* sig is passed explicitly because the change handler runs under the new one
matchesLight(sig) == sig = "light"

getSystemTheme(sig) == IF matchesLight(sig) THEN "light" ELSE "dark"

getActualTheme(preference, sig) ==
    IF preference = "system" THEN getSystemTheme(sig) ELSE preference

\* slip: the branches of the conditional swapped
getSystemTheme2_Swapped(sig) == IF matchesLight(sig) THEN "dark" ELSE "light"

getSystemTheme2(sig) == IF matchesLight(sig) THEN "light" ELSE "dark"

getActualTheme2(preference, sig) ==
    IF preference = "system" THEN getSystemTheme2(sig) ELSE preference

\* slip: the default for an absent preference left out
bootstrapPreference_NoDefault == getStoredTheme

\* the bootstrap's own copy of the rule
bootstrapPreference ==
    IF Falsy(getStoredTheme) THEN "system" ELSE getStoredTheme

bootstrapActualTheme(preference, sig) ==
    IF preference = "system"
    THEN (IF matchesLight(sig) THEN "light" ELSE "dark")
    ELSE preference

(***************************************************************************)
(* Reading the current state off the document root.                        *)
(***************************************************************************)
\* slip: storage consulted before the document attribute
getCurrentPreference_StorageFirst(d) ==
    IF ~Falsy(safeLocalStorageGet) THEN safeLocalStorageGet
    ELSE IF ~Falsy(d.pref) THEN d.pref
    ELSE "system"

getCurrentPreference(d) ==
    IF ~Falsy(d.pref) THEN d.pref
    ELSE IF ~Falsy(safeLocalStorageGet) THEN safeLocalStorageGet
    ELSE "system"

\* slip: the attribute is not consulted
getCurrentPreference2_Default(d) == "system"

getCurrentPreference2(d) == IF ~Falsy(d.pref) THEN d.pref ELSE "system"

getCurrentTheme(d) == d.theme

(***************************************************************************)
(* Element lookup.                                                         *)
(***************************************************************************)
\* slip: stops at the first element that is missing
missingElements_FirstOnly(v) ==
    LET m == SelectSeq(Required(v), LAMBDA e : e \notin present)
    IN  IF m = <<>> THEN m ELSE <<m[1]>>

missingElements(v) == SelectSeq(Required(v), LAMBDA e : e \notin present)

\* getRequiredElements throws iff some required element is missing
getRequiredElementsThrows(v) == Len(missingElements(v)) > 0

(***************************************************************************)
(* UI update functions: each maps the DOM state d to the DOM state after   *)
(* the call.                                                               *)
(***************************************************************************)
\* slip: the favicon update left out of the synchronisation
updateFavicon_Skipped(theme, d) == d

updateFavicon(theme, d) ==
    IF "favicon" \in present
    THEN [d EXCEPT !.favicon =
              IF theme = "light" THEN FaviconLight ELSE FaviconDark]
    ELSE d

\* slip: the dark branch left out, the monogram keeps its previous source
updateThemeIcons_LightOnly(theme, d) ==
    IF theme = "light"
    THEN [d EXCEPT !.monogram = MonogramLight]
    ELSE d

updateThemeIcons(theme, d) ==
    IF theme = "light"
    THEN [d EXCEPT !.monogram = MonogramLight]
    ELSE [d EXCEPT !.monogram = MonogramDark]

\* slip: classList.toggle instead of add / remove
updateThemeIcons2_Toggle(theme, d) ==
    IF theme = "light"
    THEN [d EXCEPT !.sunHidden = FALSE, !.moonHidden = ~d.moonHidden,
                   !.monogram = MonogramLight]
    ELSE [d EXCEPT !.sunHidden = ~d.sunHidden, !.moonHidden = FALSE,
                   !.monogram = MonogramDark]

\* slip: shows the icon of the theme without hiding the other one
updateThemeIcons2_NoHide(theme, d) ==
    IF theme = "light"
    THEN [d EXCEPT !.sunHidden = FALSE, !.monogram = MonogramLight]
    ELSE [d EXCEPT !.moonHidden = FALSE, !.monogram = MonogramDark]

updateThemeIcons2(theme, d) ==
    IF theme = "light"
    THEN [d EXCEPT !.sunHidden = FALSE, !.moonHidden = TRUE,
                   !.monogram = MonogramLight]
    ELSE [d EXCEPT !.sunHidden = TRUE, !.moonHidden = FALSE,
                   !.monogram = MonogramDark]

\* slip: the active marker is added without clearing the other buttons
updateButtonStates_NoClear(preference, d) ==
    LET activeButton == IF preference = "light" THEN "lightThemeButton"
                        ELSE IF preference = "dark" THEN "darkThemeButton"
                        ELSE "systemThemeButton"
    IN  [d EXCEPT !.active = d.active \cup {activeButton}]

updateButtonStates(preference, d) ==
    LET cleared == ((d.active \ {"lightThemeButton"})
                       \ {"systemThemeButton"}) \ {"darkThemeButton"}
        activeButton == IF preference = "light" THEN "lightThemeButton"
                        ELSE IF preference = "dark" THEN "darkThemeButton"
                        ELSE "systemThemeButton"
    IN  [d EXCEPT !.active = cleared \cup {activeButton}]

updateButtonStates2(preference, d) ==
    LET cleared == (d.active \ {"themeToggle"}) \ {"systemThemeToggle"}
        activeButton == IF preference = "system" THEN "systemThemeToggle"
                        ELSE "themeToggle"
    IN  [d EXCEPT !.active = cleared \cup {activeButton}]

updateDocumentAttributes(preference, theme, d) ==
    [d EXCEPT !.theme = theme, !.pref = preference]

updateThemeUI(preference, d, sig) ==
    LET theme == getActualTheme(preference, sig)
        d1 == updateDocumentAttributes(preference, theme, d)
        d2 == updateThemeIcons(theme, d1)
        d3 == updateFavicon(theme, d2)
    IN  updateButtonStates(preference, d3)

updateThemeUI2(preference, d, sig) ==
    LET theme == getActualTheme2(preference, sig)
        d1 == updateDocumentAttributes(preference, theme, d)
        d2 == updateThemeIcons2(theme, d1)
        d3 == updateFavicon(theme, d2)
    IN  updateButtonStates2(preference, d3)


(***************************************************************************)
(* User action handlers.  A handler maps s = [dom, storage, uncaught] to   *)
(* the same record after it ran, under OS signal sig.                      *)
(***************************************************************************)
setLightTheme(s, sig) ==
    [s EXCEPT !.storage = safeLocalStorageSet("light", s.storage),
              !.dom = updateThemeUI("light", s.dom, sig)]

\* slip: the selection is applied but not persisted
setSystemTheme_NotPersisted(s, sig) ==
    [s EXCEPT !.dom = updateThemeUI("system", s.dom, sig)]

setSystemTheme(s, sig) ==
    [s EXCEPT !.storage = safeLocalStorageSet("system", s.storage),
              !.dom = updateThemeUI("system", s.dom, sig)]

setDarkTheme(s, sig) ==
    [s EXCEPT !.storage = safeLocalStorageSet("dark", s.storage),
              !.dom = updateThemeUI("dark", s.dom, sig)]

\* localStorage.setItem is called bare here: a throw leaves the handler
toggleManualTheme(s, sig) ==
    LET currentTheme == getCurrentTheme(s.dom)
        newTheme == IF currentTheme = "light" THEN "dark" ELSE "light"
    IN  IF writeFails
        THEN [s EXCEPT !.uncaught = TRUE]
        ELSE [s EXCEPT !.storage = newTheme,
                       !.dom = updateThemeUI2(newTheme, s.dom, sig)]

setSystemTheme2(s, sig) ==
    IF writeFails
    THEN [s EXCEPT !.uncaught = TRUE]
    ELSE [s EXCEPT !.storage = "system",
                   !.dom = updateThemeUI2("system", s.dom, sig)]

\* the click listener setupEventListeners attached to button b
clickHandler(v, b, s, sig) ==
    IF v = "three"
    THEN CASE b = "lightThemeButton" -> setLightTheme(s, sig)
           [] b = "systemThemeButton" -> setSystemTheme(s, sig)
           [] b = "darkThemeButton" -> setDarkTheme(s, sig)
    ELSE CASE b = "themeToggle" -> toggleManualTheme(s, sig)
           [] b = "systemThemeToggle" -> setSystemTheme2(s, sig)

Keys == {"Enter", " ", "Tab"}

\* slip: only Enter activates
handleKeyPress_EnterOnly(b, key, s, sig) ==
    IF key = "Enter" THEN clickHandler("three", b, s, sig) ELSE s

\* keydown listener of the three-button manager
handleKeyPress(b, key, s, sig) ==
    IF key = "Enter" \/ key = " " THEN clickHandler("three", b, s, sig) ELSE s

\* variants of the change listener with a plausible slip: one that never
\* re-synchronises, one that lost its guard
createSystemChangeHandler_Deaf(d, sig) == d

createSystemChangeHandler_Unguarded(d, sig) == updateThemeUI("system", d, sig)

\* "change" listener of the media query
createSystemChangeHandler(d, sig) ==
    LET currentPreference == getCurrentPreference(d)
    IN  IF currentPreference = "system"
        THEN updateThemeUI("system", d, sig)
        ELSE d

\* slip: re-applies the resolved theme as if it were the preference
createSystemThemeChangeHandler_Explicit(d, sig) ==
    LET currentPreference == getCurrentPreference2(d)
    IN  IF currentPreference = "system"
        THEN updateThemeUI2(getSystemTheme2(sig), d, sig)
        ELSE d

createSystemThemeChangeHandler(d, sig) ==
    LET currentPreference == getCurrentPreference2(d)
    IN  IF currentPreference = "system"
        THEN updateThemeUI2("system", d, sig)
        ELSE d

(***************************************************************************)
(* The page as the host markup delivers it.  The markup of the controls is *)
(* not part of the sources, so every initial visual state is admitted; the *)
(* bare favicon link of the layout points at the dark icon.                *)
(***************************************************************************)
MarkupStates(v, pr) ==
    [monogram : IF "monogram" \in pr THEN {MonogramLight, MonogramDark}
                ELSE {NULL},
     sunHidden : IF "sunIcon" \in pr THEN BOOLEAN ELSE {FALSE},
     moonHidden : IF "moonIcon" \in pr THEN BOOLEAN ELSE {FALSE},
     favicon : IF "favicon" \in pr THEN {FaviconDark} ELSE {NULL},
     active : SUBSET (Buttons(v) \cap pr)]

\* the document before any script ran: no theme attributes on the root
FreshDom(m) ==
    [theme |-> NULL, pref |-> NULL, monogram |-> m.monogram,
     sunHidden |-> m.sunHidden, moonHidden |-> m.moonHidden,
     favicon |-> m.favicon, active |-> m.active]

\* everything but the lifecycle position
InitPage ==
    /\ variant \in {"three", "two"}
    /\ present \in SUBSET (Range(Required(variant)) \cup {"favicon"})
    /\ markup \in MarkupStates(variant, present)
    /\ os \in ActualThemes
    /\ storage \in StoredValues
    /\ readFails \in BOOLEAN
    /\ writeFails \in BOOLEAN
    /\ dom = FreshDom(markup)
    /\ actualTheme = NULL
    /\ listeners = FALSE
    /\ diagnostics = <<>>
    /\ uncaught = FALSE
    /\ lastSelected = NULL
    /\ touched = FALSE
    /\ bootOs = NULL
    /\ lastEvent = "none"

Init == InitPage /\ pc = "loading"

env == <<variant, present, markup, os, readFails, writeFails>>
hist == <<lastSelected, touched>>

(***************************************************************************)
(* Page lifecycle.                                                         *)
(***************************************************************************)
\* the inline script in <head>; the document is still loading, so setFavicon
\* is registered for DOMContentLoaded
Bootstrap ==
    /\ pc = "loading"
    /\ LET preference == bootstrapPreference
           theme == bootstrapActualTheme(preference, os)
       IN  /\ dom' = [dom EXCEPT !.theme = theme, !.pref = preference]
           /\ actualTheme' = theme
    /\ pc' = "booted"
    /\ bootOs' = os
    /\ lastEvent' = "Bootstrap"
    /\ UNCHANGED <<env, storage, listeners, diagnostics, uncaught, hist>>

\* DOMContentLoaded, first listener
setFavicon ==
    /\ pc = "booted"
    /\ dom' = IF "favicon" \in present
              THEN [dom EXCEPT !.favicon =
                        IF actualTheme = "light" THEN FaviconLight
                        ELSE FaviconDark]
              ELSE dom
    /\ actualTheme' = NULL
    /\ pc' = "domReady"
    /\ lastEvent' = "setFavicon"
    /\ UNCHANGED bootOs
    /\ UNCHANGED <<env, storage, listeners, diagnostics, uncaught, hist>>

\* slip: the listeners attached although the element lookup threw
initializeThemeManager_ListenAnyway(d) ==
    IF getRequiredElementsThrows("three")
    THEN [dom |-> d, listeners |-> TRUE,
          diagnostics |-> Append(diagnostics, missingElements("three"))]
    ELSE [dom |-> updateThemeUI(getCurrentPreference(d), d, os),
          listeners |-> TRUE, diagnostics |-> diagnostics]

\* what initialize leaves behind: [dom, listeners, diagnostics]
initializeThemeManager(d) ==
    IF getRequiredElementsThrows("three")
    THEN [dom |-> d, listeners |-> FALSE,
          diagnostics |-> Append(diagnostics, missingElements("three"))]
    ELSE [dom |-> updateThemeUI(getCurrentPreference(d), d, os),
          listeners |-> TRUE, diagnostics |-> diagnostics]

initializeThemeManager2(d) ==
    IF getRequiredElementsThrows("two")
    THEN [dom |-> d, listeners |-> FALSE,
          diagnostics |-> Append(diagnostics, missingElements("two"))]
    ELSE [dom |-> updateThemeUI2(getCurrentPreference2(d), d, os),
          listeners |-> TRUE, diagnostics |-> diagnostics]

\* DOMContentLoaded, second listener
Initialize ==
    /\ pc = "domReady"
    /\ LET r == IF variant = "three" THEN initializeThemeManager(dom)
                ELSE initializeThemeManager2(dom)
       IN  /\ dom' = r.dom
           /\ listeners' = r.listeners
           /\ diagnostics' = r.diagnostics
           /\ pc' = IF r.listeners THEN "ready" ELSE "degraded"
    /\ lastEvent' = "Initialize"
    /\ UNCHANGED bootOs
    /\ UNCHANGED <<env, storage, actualTheme, uncaught, hist>>

Interactive == pc \in {"booted", "ready", "degraded"}

(***************************************************************************)
(* Events.                                                                 *)
(***************************************************************************)
\* the preference a click on button b asks for
chosenPreference(v, b, d) ==
    IF v = "three"
    THEN CASE b = "lightThemeButton" -> "light"
           [] b = "systemThemeButton" -> "system"
           [] b = "darkThemeButton" -> "dark"
    ELSE IF b = "systemThemeToggle" THEN "system"
         ELSE IF d.theme = "light" THEN "dark" ELSE "light"

\* the handler's result r becomes the state; ran: a user action handler ran
Handled(r, ran, chosen) ==
    /\ dom' = r.dom
    /\ storage' = r.storage
    /\ uncaught' = r.uncaught
    /\ lastSelected' = IF ran /\ ~writeFails THEN chosen ELSE lastSelected
    /\ touched' = (touched \/ ran)

\* pointer click on button b
Click(b) ==
    /\ Interactive
    /\ b \in Buttons(variant) \cap present
    /\ LET s == [dom |-> dom, storage |-> storage, uncaught |-> uncaught]
           chosen == chosenPreference(variant, b, dom)
       IN  IF listeners
           THEN Handled(clickHandler(variant, b, s, os), TRUE, chosen)
           ELSE Handled(s, FALSE, chosen)
    /\ lastEvent' = "Click"
    /\ bootOs' = IF pc = "booted" THEN bootOs ELSE NULL
    /\ UNCHANGED <<env, pc, actualTheme, listeners, diagnostics>>

\* key press on focused button b; only the three-button manager listens
KeyDown(b, key) ==
    /\ Interactive
    /\ b \in Buttons(variant) \cap present
    /\ LET s == [dom |-> dom, storage |-> storage, uncaught |-> uncaught]
           chosen == chosenPreference(variant, b, dom)
       IN  IF listeners /\ variant = "three"
           THEN Handled(handleKeyPress(b, key, s, os),
                        key \in {"Enter", " "}, chosen)
           ELSE Handled(s, FALSE, chosen)
    /\ lastEvent' = "KeyDown"
    /\ bootOs' = IF pc = "booted" THEN bootOs ELSE NULL
    /\ UNCHANGED <<env, pc, actualTheme, listeners, diagnostics>>

\* the OS color scheme flips; the media query's change listener, if attached,
\* runs under the new signal
OSChange ==
    /\ pc \in {"loading", "booted", "ready", "degraded"}
    /\ os' = IF os = "light" THEN "dark" ELSE "light"
    /\ dom' = IF ~listeners THEN dom
              ELSE IF variant = "three"
                   THEN createSystemChangeHandler(dom, os')
                   ELSE createSystemThemeChangeHandler(dom, os')
    /\ lastEvent' = "OSChange"
    /\ bootOs' = IF pc = "booted" THEN bootOs ELSE NULL
    /\ UNCHANGED <<variant, present, markup, readFails, writeFails, storage,
                   pc, actualTheme, listeners, diagnostics, uncaught, hist>>

\* the user reloads the tab: a fresh document, the same markup and storage
PageReset ==
    /\ pc \in {"ready", "degraded"}
    /\ dom' = FreshDom(markup)
    /\ actualTheme' = NULL
    /\ listeners' = FALSE
    /\ diagnostics' = <<>>
    /\ uncaught' = FALSE
    /\ touched' = FALSE
    /\ bootOs' = NULL
    /\ lastEvent' = "none"
    /\ readFails' \in BOOLEAN
    /\ writeFails' \in BOOLEAN
    /\ UNCHANGED <<variant, present, markup, os, storage, lastSelected>>

Reload ==
    /\ pc' = "loading"
    /\ PageReset

Next ==
    \/ Bootstrap
    \/ setFavicon
    \/ Initialize
    \/ \E b \in Buttons3 \cup Buttons2 : Click(b)
    \/ \E b \in Buttons3 \cup Buttons2, key \in Keys : KeyDown(b, key)
    \/ OSChange
    \/ Reload

Spec == Init /\ [][Next]_vars

(***************************************************************************)
(* The exported manager on a page that carries no inline bootstrap: the    *)
(* document reaches DOMContentLoaded with no theme attribute on its root.  *)
(***************************************************************************)
InitStandalone == InitPage /\ pc = "domReady"

ReloadStandalone ==
    /\ pc' = "domReady"
    /\ PageReset

NextStandalone ==
    \/ Initialize
    \/ \E b \in Buttons3 \cup Buttons2 : Click(b)
    \/ \E b \in Buttons3 \cup Buttons2, key \in Keys : KeyDown(b, key)
    \/ OSChange
    \/ ReloadStandalone

SpecStandalone == InitStandalone /\ [][NextStandalone]_vars

TypeOK ==
    /\ variant \in {"three", "two"}
    /\ os \in ActualThemes
    /\ storage \in StoredValues
    /\ pc \in {"loading", "booted", "domReady", "ready", "degraded"}
    /\ dom.theme \in {NULL, "light", "dark", "junk"}
    /\ dom.pref \in {NULL, "light", "dark", "system", "junk"}
    /\ listeners = (pc = "ready")

(***************************************************************************)
(* What the specification expects, stated independently of the code.       *)
(***************************************************************************)
Resolve(p, sig) == IF p = "system" THEN sig ELSE p

MonogramFor(t) == IF t = "light" THEN MonogramLight ELSE MonogramDark

FaviconFor(t) == IF t = "light" THEN FaviconLight ELSE FaviconDark

\* the button that stands for preference p in control variant v
ButtonFor(v, p) ==
    IF v = "three"
    THEN CASE p = "light" -> "lightThemeButton"
           [] p = "dark" -> "darkThemeButton"
           [] p = "system" -> "systemThemeButton"
    ELSE IF p = "system" THEN "systemThemeToggle" ELSE "themeToggle"

\* every control visual shows resolved theme t and preference p
VisualsShow(d, t, p) ==
    /\ d.monogram = MonogramFor(t)
    /\ variant = "two" => /\ d.sunHidden = (t # "light")
                          /\ d.moonHidden = (t = "light")
    /\ "favicon" \in present => d.favicon = FaviconFor(t)
    /\ d.active = {ButtonFor(variant, p)}

Bootstrapped == pc \in {"booted", "domReady", "ready", "degraded"}

(***************************************************************************)
(* C1.  As claimed: in every state after the bootstrap, data-theme equals  *)
(* the resolution of data-theme-preference against the current OS signal.  *)
(* This fails while no change listener is attached (before initialize, and *)
(* after an initialize that found an element missing).                     *)
(***************************************************************************)
C1_AfterBootstrap == Bootstrapped => dom.theme = Resolve(dom.pref, os)

\* C1, amended: in every state after a successful initialize, between
\* handlers, data-theme equals the resolution of data-theme-preference
\* against the current OS signal.
C1_AttributeConsistency == pc = "ready" => dom.theme = Resolve(dom.pref, os)

C1_Witness ==
    /\ pc = "ready" /\ touched /\ lastEvent = "OSChange"
    /\ dom.pref = "system" /\ os = "dark" /\ dom.theme = "dark"

(***************************************************************************)
(* C2.  While the preference is light or dark, handling an OS color-scheme *)
(* change leaves both attributes, the stored preference and every control  *)
(* visual (monogram, icons, favicon href, active markers) unchanged.       *)
(***************************************************************************)
C2_OSChangeIgnored ==
    [][(OSChange /\ dom.pref \in {"light", "dark"})
          => UNCHANGED <<dom, storage>>]_vars

C2_Witness ==
    /\ pc = "ready" /\ lastEvent = "OSChange"
    /\ dom.pref = "light" /\ os = "dark" /\ dom.theme = "light"
    /\ dom.monogram = MonogramLight

(***************************************************************************)
(* C3.  After a successful initialize, an OS color-scheme change to S      *)
(* under preference system ends, once the change handler ran, with         *)
(* data-theme = S, the S monogram, icons and favicon, preference still     *)
(* system and the system button the active one.                            *)
(***************************************************************************)
C3_OSChangeFollowed ==
    [][(OSChange /\ pc = "ready" /\ dom.pref = "system")
          => /\ dom'.theme = os'
             /\ dom'.pref = "system"
             /\ VisualsShow(dom', os', "system")
             /\ storage' = storage]_vars

C3_Witness ==
    /\ pc = "ready" /\ lastEvent = "OSChange" /\ variant = "two"
    /\ dom.pref = "system" /\ os = "dark" /\ dom.theme = "dark"
    /\ dom.sunHidden /\ ~dom.moonHidden
    /\ dom.active = {"systemThemeToggle"}

(***************************************************************************)
(* C4.  With storage writes failing, every user action of either variant   *)
(* still synchronises the UI to the chosen preference and lets no error    *)
(* escape the handler.  The two-button manager calls localStorage.setItem  *)
(* bare, so there the claim is violated.                                   *)
(***************************************************************************)
C4_StorageUnavailableSelection ==
    [][\A b \in Buttons3 \cup Buttons2 :
          (Click(b) /\ listeners /\ writeFails)
             => LET chosen == chosenPreference(variant, b, dom)
                IN  /\ dom'.pref = chosen
                    /\ dom'.theme = Resolve(chosen, os)
                    /\ VisualsShow(dom', Resolve(chosen, os), chosen)
                    /\ uncaught' = FALSE]_vars

(***************************************************************************)
(* C5.  An initialize that finds a required element missing lets no error  *)
(* escape, reports one diagnostic that names every missing element, and    *)
(* writes nothing: the attributes stay as the bootstrap wrote them, no     *)
(* control visual and no storage write happens, no listener is attached.   *)
(***************************************************************************)
C5_MissingElementInit ==
    [][(Initialize /\ Range(Required(variant)) \ present # {})
          => /\ UNCHANGED <<dom, storage>>
             /\ uncaught' = FALSE
             /\ Len(diagnostics') = 1
             /\ Range(diagnostics'[1]) = Range(Required(variant)) \ present
             /\ listeners' = FALSE]_vars

C5_Witness ==
    /\ pc = "degraded" /\ lastEvent = "Initialize" /\ ~uncaught
    /\ Len(diagnostics) = 1
    /\ diagnostics[1] = <<"systemThemeButton", "monogram">>
    /\ dom.pref = "dark" /\ dom.theme = "dark" /\ os = "light"
    /\ dom.active = {"lightThemeButton"}

AllPresent == Range(Required(variant)) \subseteq present

\* synchronize-UI of the variant the page ships
SyncUI(p, d) ==
    IF variant = "three" THEN updateThemeUI(p, d, os)
    ELSE updateThemeUI2(p, d, os)

(***************************************************************************)
(* C6.  After every synchronize-UI call exactly one button carries the     *)
(* active marker, the one of the preference (not of the resolved theme):   *)
(* whatever the buttons looked like before the call, and in every state    *)
(* the manager leaves between handlers.                                    *)
(***************************************************************************)
C6_ExactlyOneActive ==
    /\ AllPresent =>
          \A p \in Preferences :
              /\ Cardinality(SyncUI(p, dom).active) = 1
              /\ SyncUI(p, dom).active = {ButtonFor(variant, p)}
    /\ pc = "ready" =>
          /\ Cardinality(dom.active) = 1
          /\ dom.pref \in Preferences
                => dom.active = {ButtonFor(variant, dom.pref)}

C6_Witness ==
    /\ pc = "ready" /\ variant = "three" /\ lastEvent = "Click"
    /\ markup.active = {"lightThemeButton", "darkThemeButton"}
    /\ dom.pref = "system" /\ dom.theme = "dark"
    /\ dom.active = {"systemThemeButton"}

(***************************************************************************)
(* C7.  After every synchronize-UI call exactly one theme-specific variant *)
(* is shown: the monogram source is the light or the dark image, in the    *)
(* two-button variant exactly one of the sun and moon icons is not hidden, *)
(* and the variant shown is the one of the resolved theme.                 *)
(***************************************************************************)
ExactlyOneVariant(d) ==
    /\ d.monogram \in {MonogramLight, MonogramDark}
    /\ variant = "two" => d.sunHidden # d.moonHidden

VariantOf(d, t) ==
    /\ d.monogram = MonogramFor(t)
    /\ variant = "two" => (~d.sunHidden <=> t = "light")

C7_ExclusiveVariants ==
    /\ AllPresent =>
          \A p \in Preferences :
              /\ ExactlyOneVariant(SyncUI(p, dom))
              /\ VariantOf(SyncUI(p, dom), Resolve(p, os))
    /\ pc = "ready" =>
          /\ ExactlyOneVariant(dom)
          /\ dom.theme \in ActualThemes => VariantOf(dom, dom.theme)

C7_Witness ==
    /\ pc = "ready" /\ variant = "two" /\ lastEvent = "Click"
    /\ markup.sunHidden /\ markup.moonHidden
    /\ dom.theme = "light" /\ ~dom.sunHidden /\ dom.moonHidden
    /\ dom.monogram = MonogramLight

(***************************************************************************)
(* C8.  A preference P selected while storage works survives a fresh page  *)
(* load: after the bootstrap and initialize of the next load, and before   *)
(* any further user action, data-theme-preference = P, and for P light or  *)
(* dark data-theme = P whatever the OS signal is.                          *)
(***************************************************************************)
C8_PersistenceRoundTrip ==
    (/\ pc \in {"ready", "degraded"}
     /\ ~touched
     /\ lastSelected # NULL
     /\ ~readFails)
        => /\ dom.pref = lastSelected
           /\ lastSelected \in ActualThemes => dom.theme = lastSelected

C8_Witness ==
    /\ pc = "ready" /\ ~touched /\ lastEvent = "Initialize" /\ ~readFails
    /\ lastSelected = "dark" /\ os = "light"
    /\ dom.pref = "dark" /\ dom.theme = "dark"

(***************************************************************************)
(* C9.  synchronize-UI is idempotent: for every preference and OS signal a *)
(* second call changes nothing the first one left, so selecting the same   *)
(* preference twice ends in the state of selecting it once.                *)
(***************************************************************************)
SelectButtons ==
    IF variant = "three" THEN Buttons3 ELSE {"systemThemeToggle"}

C9_Idempotent ==
    AllPresent =>
        /\ \A p \in Preferences :
              SyncUI(p, SyncUI(p, dom)) = SyncUI(p, dom)
        /\ \A b \in SelectButtons :
              LET s == [dom |-> dom, storage |-> storage,
                        uncaught |-> uncaught]
                  once == clickHandler(variant, b, s, os)
              IN  clickHandler(variant, b, once, os) = once

C9_Witness ==
    /\ pc = "ready" /\ variant = "two" /\ lastEvent = "Click" /\ touched
    /\ dom.pref = "system" /\ os = "dark"
    /\ updateThemeUI2("system", dom, os) = dom
    /\ updateThemeUI2("light", dom, os) # dom

(***************************************************************************)
(* C10.  The resolved theme of preference P under OS signal S is S when P  *)
(* is system and P otherwise, and the inline bootstrap and the             *)
(* getActualTheme of either manager all compute this value.                *)
(***************************************************************************)
C10_ResolutionRule ==
    /\ \A p \in Preferences :
          /\ getActualTheme(p, os) = Resolve(p, os)
          /\ getActualTheme2(p, os) = Resolve(p, os)
          /\ bootstrapActualTheme(p, os) = Resolve(p, os)
    /\ (lastEvent = "Bootstrap" \/ (lastEvent = "Initialize" /\ pc = "ready"))
          => dom.theme = Resolve(dom.pref, os)

C10_Witness ==
    /\ lastEvent = "Initialize" /\ pc = "ready" /\ variant = "two"
    /\ dom.pref = "system" /\ os = "dark" /\ dom.theme = "dark"
    /\ \E p \in Preferences : getActualTheme2(p, os) # p

(***************************************************************************)
(* C11.  The preference is mutated only by explicit user action: storage   *)
(* is written only by a click or key activation that reached a handler,    *)
(* and the bootstrap, the DOM-ready favicon update, initialize and the     *)
(* OS-change handler neither write storage nor replace a preference        *)
(* attribute that is already set by another value.                         *)
(***************************************************************************)
C11_OnlyUserActionMutates ==
    [][/\ storage' # storage
            => (lastEvent' \in {"Click", "KeyDown"} /\ listeners /\ touched')
       /\ (Bootstrap \/ setFavicon \/ Initialize \/ OSChange)
            => /\ storage' = storage
               /\ dom.pref # NULL => dom'.pref = dom.pref]_vars

C11_Witness ==
    /\ pc = "ready" /\ lastEvent = "OSChange" /\ touched
    /\ dom.pref = "system" /\ storage = "dark" /\ os = "light"
    /\ dom.theme = "light"

(***************************************************************************)
(* C12.  The two-button toggle sets the preference to the explicit value   *)
(* opposite to the resolved theme held just before, persists it and        *)
(* synchronises the UI to it, so the preference is never system afterwards.*)
(* With storage writes failing the bare localStorage.setItem of            *)
(* toggleManualTheme throws first (see C4) and the statement is violated.  *)
(***************************************************************************)
Opposite(t) == IF t = "light" THEN "dark" ELSE "light"

C12_Toggle ==
    [][(Click("themeToggle") /\ listeners /\ dom.theme \in ActualThemes)
          => /\ dom'.pref = Opposite(dom.theme)
             /\ dom'.pref # "system"
             /\ dom'.theme = Opposite(dom.theme)
             /\ VisualsShow(dom', Opposite(dom.theme), Opposite(dom.theme))
             /\ ~writeFails => storage' = Opposite(dom.theme)]_vars

(***************************************************************************)
(* C13.  A successful initialize takes the preference from the document    *)
(* attribute when it is set, otherwise from storage, otherwise system,     *)
(* synchronises the UI with it and attaches the listeners, in each control *)
(* variant, also when no bootstrap set the attribute.  The two-button      *)
(* getCurrentPreference never reads storage, so there the statement is     *)
(* violated when the attribute is absent and storage holds a preference.   *)
(***************************************************************************)
ExpectedInitPreference ==
    IF ~Falsy(dom.pref) THEN dom.pref
    ELSE IF ~readFails /\ ~Falsy(storage) THEN storage
    ELSE "system"

C13_InitializeSource ==
    [][(Initialize /\ AllPresent)
          => /\ dom'.pref = ExpectedInitPreference
             /\ dom'.theme = Resolve(ExpectedInitPreference, os)
             /\ listeners'
             /\ storage' = storage]_vars

(***************************************************************************)
(* C14.  The bootstrap runs on a root that carries no theme attribute yet  *)
(* and always writes both: the preference is the stored value when one is  *)
(* present and readable, system when the key is absent or the read fails   *)
(* (no error escapes), and data-theme is the resolution of that preference *)
(* against the OS signal of that moment.                                   *)
(***************************************************************************)
C14_BootstrapContract ==
    [][Bootstrap
          => /\ dom.pref = NULL /\ dom.theme = NULL
             /\ dom'.pref # NULL /\ dom'.theme # NULL
             /\ (~readFails /\ ~Falsy(storage)) => dom'.pref = storage
             /\ (readFails \/ storage = NULL) => dom'.pref = "system"
             /\ dom'.theme = Resolve(dom'.pref, os)
             /\ uncaught' = FALSE
             /\ storage' = storage]_vars

C14_Witness ==
    /\ pc = "booted" /\ lastEvent = "Bootstrap"
    /\ readFails /\ storage = "dark" /\ os = "light"
    /\ dom.pref = "system" /\ dom.theme = "light"

(***************************************************************************)
(* C15.  Agreement of the control visuals with the attributes: the         *)
(* monogram, the icons and the favicon href are the light variants when    *)
(* data-theme is light and the dark variants otherwise, and exactly one    *)
(* button is active, the one of data-theme-preference.  Only elements the  *)
(* document contains are constrained.                                      *)
(***************************************************************************)
VisualsAgree(d) ==
    /\ "monogram" \in present => d.monogram = MonogramFor(d.theme)
    /\ "sunIcon" \in present => d.sunHidden = (d.theme # "light")
    /\ "moonIcon" \in present => d.moonHidden = (d.theme = "light")
    /\ "favicon" \in present => d.favicon = FaviconFor(d.theme)
    /\ Buttons(variant) \subseteq present =>
          /\ Cardinality(d.active) = 1
          /\ d.pref \in Preferences
                => d.active = {ButtonFor(variant, d.pref)}

\* C15 as claimed: the visuals agree with the attributes in every state after
\* the bootstrap, the interval before initialize included.  Nothing
\* synchronises the controls before initialize, and the bare favicon link
\* keeps its dark href until DOM-ready.
C15_AfterFirstPaint == Bootstrapped => VisualsAgree(dom)

\* C15, amended: in every state after a successful initialize, between
\* handlers, the visuals agree with the attributes.
C15_VisualAgreement == pc = "ready" => VisualsAgree(dom)

C15_Witness ==
    /\ pc = "ready" /\ variant = "three" /\ lastEvent = "OSChange"
    /\ "favicon" \in present /\ markup.monogram = MonogramDark
    /\ dom.pref = "system" /\ dom.theme = "light"
    /\ dom.favicon = FaviconLight /\ dom.monogram = MonogramLight
    /\ dom.active = {"systemThemeButton"}

(***************************************************************************)
(* C16.  Attribute domain: after the bootstrap data-theme is light or dark *)
(* and data-theme-preference is light, dark or system, whatever the        *)
(* storage key held at page load.  Neither the bootstrap nor the manager   *)
(* validates the stored string, so any other stored value reaches both     *)
(* attributes.                                                             *)
(***************************************************************************)
C16_AttributeDomain ==
    Bootstrapped => /\ dom.theme \in ActualThemes
                    /\ dom.pref \in Preferences

(***************************************************************************)
(* C17.  History independence of the three-button variant: after a         *)
(* successful initialize the observable state (both attributes, monogram,  *)
(* favicon href, active button) is a function of the current preference    *)
(* and the current OS signal alone, and the current preference is the one  *)
(* selected last (the initial one while nothing was selected); OS changes  *)
(* do not alter it.  Two runs with the same last selection and OS signal   *)
(* therefore end in the same observable state.                             *)
(***************************************************************************)
ObservableOf(p, sig) ==
    LET t == Resolve(p, sig)
    IN  [theme |-> t, pref |-> p,
         monogram |-> MonogramFor(t),
         sunHidden |-> markup.sunHidden, moonHidden |-> markup.moonHidden,
         favicon |-> IF "favicon" \in present THEN FaviconFor(t) ELSE NULL,
         active |-> {IF p \in ActualThemes THEN ButtonFor("three", p)
                     ELSE "systemThemeButton"}]

C17_HistoryIndependence ==
    /\ []((pc = "ready" /\ variant = "three")
             => dom = ObservableOf(dom.pref, os))
    /\ [][(listeners /\ variant = "three")
             => /\ \A b \in Buttons3 :
                      Click(b) => dom'.pref = chosenPreference("three", b, dom)
                /\ \A b \in Buttons3, key \in Keys :
                      KeyDown(b, key)
                         => dom'.pref = IF key \in {"Enter", " "}
                                        THEN chosenPreference("three", b, dom)
                                        ELSE dom.pref
                /\ OSChange => dom'.pref = dom.pref]_vars

C17_Witness ==
    /\ pc = "ready" /\ variant = "three" /\ lastEvent = "Click" /\ touched
    /\ markup.monogram = MonogramDark /\ markup.active = {"darkThemeButton"}
    /\ storage = "dark" /\ writeFails /\ os = "dark"
    /\ dom = ObservableOf("light", "dark")

(***************************************************************************)
(* C18.  The bootstrap and the manager agree: an initialize that finds all *)
(* elements, run after the bootstrap under the OS signal the bootstrap     *)
(* saw (storage cannot change in between), writes the data-theme and       *)
(* data-theme-preference values that are already there.                    *)
(***************************************************************************)
C18_BootstrapManagerAgree ==
    [][(Initialize /\ AllPresent /\ bootOs = os)
          => /\ dom'.theme = dom.theme
             /\ dom'.pref = dom.pref]_vars

C18_Witness ==
    /\ pc = "ready" /\ lastEvent = "Initialize" /\ variant = "two"
    /\ bootOs = "dark" /\ os = "dark" /\ storage = "system"
    /\ dom.pref = "system" /\ dom.theme = "dark"

(***************************************************************************)
(* C19.  Degraded mode is inert: on a page whose initialize found a        *)
(* required element missing no listener is attached, and no later click,   *)
(* key press or OS color-scheme change alters the attributes, the control  *)
(* visuals or storage.                                                     *)
(***************************************************************************)
InitializeFailed == pc \in {"ready", "degraded"} /\ ~AllPresent

C19_DegradedInert ==
    [][(InitializeFailed /\ lastEvent' \in {"Click", "KeyDown", "OSChange"})
          => /\ UNCHANGED <<dom, storage, uncaught>>
             /\ ~listeners /\ ~listeners']_vars

C19_Witness ==
    /\ pc = "degraded" /\ lastEvent = "OSChange" /\ ~listeners
    /\ Len(diagnostics) = 1 /\ diagnostics[1] = <<"monogram">>
    /\ dom.pref = "system" /\ dom.theme = "light" /\ os = "dark"
    /\ dom.active = markup.active /\ ~touched

(***************************************************************************)
(* C20.  In the three-button variant Enter or Space on a focused button    *)
(* changes the state exactly as a click on that button does (storage,      *)
(* attributes, visuals), and any other key changes nothing.                *)
(***************************************************************************)
C20_KeyboardEqualsClick ==
    [][\A b \in Buttons3, key \in Keys :
          (KeyDown(b, key) /\ variant = "three")
             => LET s == [dom |-> dom, storage |-> storage,
                          uncaught |-> uncaught]
                    click == IF listeners
                             THEN clickHandler("three", b, s, os) ELSE s
                IN  IF key \in {"Enter", " "}
                    THEN /\ dom' = click.dom
                         /\ storage' = click.storage
                         /\ uncaught' = click.uncaught
                    ELSE UNCHANGED <<dom, storage, uncaught, lastSelected,
                                     touched>>]_vars

C20_Witness ==
    /\ pc = "ready" /\ variant = "three" /\ lastEvent = "KeyDown" /\ touched
    /\ lastSelected = "dark" /\ storage = "dark" /\ os = "light"
    /\ dom.pref = "dark" /\ dom.theme = "dark"
    /\ dom.active = {"darkThemeButton"}

(***************************************************************************)
(* C21.  Storage mirrors the preference attribute: on a page load where    *)
(* storage reads and writes succeed, in every state after the bootstrap    *)
(* the stored value equals data-theme-preference, or nothing is stored     *)
(* while the preference is system and no user action has happened.         *)
(***************************************************************************)
C21_StorageMirrorsPreference ==
    (Bootstrapped /\ ~readFails /\ ~writeFails)
        => \/ storage = dom.pref
           \/ Falsy(storage) /\ dom.pref = "system" /\ ~touched

C21_Witness ==
    /\ pc = "ready" /\ variant = "two" /\ lastEvent = "Click" /\ touched
    /\ ~readFails /\ ~writeFails
    /\ markup.active = {} /\ os = "dark"
    /\ storage = "light" /\ dom.pref = "light" /\ dom.theme = "light"

(***************************************************************************)
(* C22.  As claimed: a document without the bare favicon link makes the    *)
(* element lookup of initialize fail loudly, one diagnostic reported and   *)
(* no listener attached, as a missing button or monogram does.  The        *)
(* lookup does not cover the favicon link; updateFavicon skips a missing   *)
(* link silently.                                                          *)
(***************************************************************************)
ControlsPresent ==
    IF variant = "three"
    THEN Buttons3 \cup {"monogram"} \subseteq present
    ELSE Buttons2 \cup {"sunIcon", "moonIcon", "monogram"} \subseteq present

C22_FaviconRequired ==
    [][(Initialize /\ "favicon" \notin present)
          => /\ Len(diagnostics') = Len(diagnostics) + 1
             /\ ~listeners']_vars

\* C22, amended: the favicon link is optional.  With every button, icon and
\* monogram present and the favicon link absent, initialize reports nothing,
\* synchronises the attributes and the other visuals, attaches the listeners
\* and leaves the favicon alone.
C22_FaviconOptional ==
    [][(Initialize /\ ControlsPresent /\ "favicon" \notin present)
          => /\ diagnostics' = diagnostics
             /\ listeners'
             /\ dom'.favicon = dom.favicon
             /\ dom'.theme = Resolve(dom'.pref, os)
             /\ VisualsAgree(dom')]_vars

C22_Witness ==
    /\ pc = "ready" /\ lastEvent = "Initialize" /\ listeners
    /\ "favicon" \notin present /\ dom.favicon = NULL
    /\ diagnostics = <<>> /\ variant = "three"
    /\ dom.pref = "light" /\ dom.monogram = MonogramLight
    /\ dom.active = {"lightThemeButton"}

====
